---- MODULE Spec2Model ----
(***************************************************************************)
(* A model of the Synacor VM of src/main.rs: the machine state of struct   *)
(* VM, one action per arm of VM::step (the whole step, fetch included),    *)
(* the debug commands of VM::process_internal_command, and main's two      *)
(* ways of building a machine (program image, exported snapshot).          *)
(***************************************************************************)
EXTENDS Integers, Sequences, FiniteSets, TLC

VARIABLES
    ram,             \* VM.ram: Vec<u8>, the bytes of the loaded image
    registers,       \* VM.registers: [u16; 8]
    addr,            \* VM.addr: u16
    stack,           \* VM.stack: Vec<u16>
    running,         \* VM.running: bool
    level,           \* VM.level: usize
    input_buffer,    \* VM.input_buffer: Vec<u8>
    overflow_checks, \* the build profile: TRUE = overflow checks on (debug), FALSE = release
    fault,           \* "none", or the panic that ended the process
    emitted,         \* the bytes the last step wrote to stderr (eprint!)
    printed,         \* the lines the last step wrote to stdout (println!)
    last,            \* the arm the last step entered and its resolved operands
    files,           \* the file system: path -> contents, or NoFile
    hist,            \* the stack operations executed so far (most recent last)
    twin,            \* a second process resumed from an exported snapshot, or NoTwin
    search,          \* bin/orb.rs: the queue entry bfs is working on, or <<>>
    solver           \* bin/6049.rs: the call frames and cache of fn6049, or <<>>

vars == <<ram, registers, addr, stack, running, level, input_buffer,
          overflow_checks, fault, emitted, printed, last, files, hist, twin,
          search, solver>>

(***************************************************************************)
(* Program constants                                                       *)
(***************************************************************************)
U16 == 65536
Modulus == 32768
RegisterEnd == 32776
NumRegisters == 8
EscapeChar == 47

(***************************************************************************)
(* Bounds of the model                                                     *)
(***************************************************************************)
MaxStack == 4
MaxLevel == 3
HistLen == 6

NoFile == [kind |-> "absent"]
NoTwin == <<>>

(***************************************************************************)
(* Results of fallible operations: err = "none" and the value, or the      *)
(* panic                                                                   *)
(***************************************************************************)
Ok(v) == [err |-> "none", v |-> v]
Err(e) == [err |-> e, v |-> 0]

\* u16 addition: panics when overflow checks are on, wraps otherwise
AddU16(x, y) ==
    IF x + y < U16 THEN Ok(x + y)
    ELSE IF overflow_checks THEN Err("Overflow")
    ELSE Ok((x + y) % U16)

\* u16 multiplication, likewise
MulU16(x, y) ==
    IF x * y < U16 THEN Ok(x * y)
    ELSE IF overflow_checks THEN Err("Overflow")
    ELSE Ok((x * y) % U16)

RECURSIVE BitAnd(_, _, _)
BitAnd(x, y, n) ==
    IF n = 0 THEN 0
    ELSE (IF x % 2 = 1 /\ y % 2 = 1 THEN 1 ELSE 0) + 2 * BitAnd(x \div 2, y \div 2, n - 1)

RECURSIVE BitOr(_, _, _)
BitOr(x, y, n) ==
    IF n = 0 THEN 0
    ELSE (IF x % 2 = 1 \/ y % 2 = 1 THEN 1 ELSE 0) + 2 * BitOr(x \div 2, y \div 2, n - 1)

\* !b on a u16
BitNot(b) == (U16 - 1) - b

(***************************************************************************)
(* The machine as one value                                                *)
(***************************************************************************)
Self ==
    [ram |-> ram, registers |-> registers, addr |-> addr, stack |-> stack,
     running |-> running, level |-> level, input_buffer |-> input_buffer]

\* VM::new(rom)
New(rom) ==
    [ram |-> rom, registers |-> [r \in 0 .. NumRegisters - 1 |-> 0], addr |-> 0,
     stack |-> <<>>, running |-> TRUE, level |-> 0, input_buffer |-> <<>>]

\* the two bytes of each word, low byte first
RECURSIVE Pack(_)
Pack(ws) ==
    IF ws = <<>> THEN <<>>
    ELSE <<Head(ws) % 256, Head(ws) \div 256>> \o Pack(Tail(ws))

(***************************************************************************)
(* Memory and operand access                                               *)
(***************************************************************************)
\* the two bytes at byte offset p (the result of addr * 2)
RamAt(m, p) ==
    IF p.err # "none" THEN Err(p.err)
    ELSE IF p.v >= Len(m.ram) THEN Err("OutOfBounds")
    ELSE IF p.v + 1 >= Len(m.ram) THEN Err("OutOfBounds")
    ELSE Ok(m.ram[p.v + 2] * 256 + m.ram[p.v + 1])

GetRam(m, a) == RamAt(m, MulU16(a, 2))

\* the ValueType of a raw word
Classify(num) ==
    IF num.err # "none" THEN [err |-> num.err, kind |-> "none", v |-> 0]
    ELSE IF num.v < Modulus THEN [err |-> "none", kind |-> "Literal", v |-> num.v]
    ELSE IF num.v < RegisterEnd THEN [err |-> "none", kind |-> "Register", v |-> num.v % Modulus]
    ELSE [err |-> "InvalidWord", kind |-> "none", v |-> 0]

GetRamValue(m, a) == Classify(GetRam(m, a))

AsRegister(t) ==
    IF t.err # "none" THEN Err(t.err)
    ELSE IF t.kind = "Register" THEN Ok(t.v)
    ELSE Err("TypeMismatch")

GetRegister(m, a) == AsRegister(GetRamValue(m, a))

AsValue(m, t) ==
    IF t.err # "none" THEN Err(t.err)
    ELSE IF t.kind = "Register" THEN Ok(m.registers[t.v])
    ELSE Ok(t.v)

GetValue(m, a) == AsValue(m, GetRamValue(m, a))

\* get_register(self.addr + k)
RegAt(m, k) ==
    IF AddU16(m.addr, k).err # "none" THEN Err(AddU16(m.addr, k).err)
    ELSE GetRegister(m, AddU16(m.addr, k).v)

\* get_value(self.addr + k)
ValAt(m, k) ==
    IF AddU16(m.addr, k).err # "none" THEN Err(AddU16(m.addr, k).err)
    ELSE GetValue(m, AddU16(m.addr, k).v)

\* the instruction word step fetches
Fetch(m) == GetValue(m, m.addr)

(***************************************************************************)
(* What one step leaves behind: the machine, the panic if any, the bytes   *)
(* and lines written, the files written, the stack operations made         *)
(***************************************************************************)
Done(m, op, args) ==
    [m |-> m, fault |-> "none", emitted |-> <<>>, printed |-> <<>>,
     last |-> [op |-> op, args |-> args], wrote |-> <<>>, sops |-> <<>>]

Panic(m, e, op, args) ==
    [m |-> m, fault |-> e, emitted |-> <<>>, printed |-> <<>>,
     last |-> [op |-> op, args |-> args], wrote |-> <<>>, sops |-> <<>>]

\* self.addr += n, then the end of the arm
Advance(m, n, op, args) ==
    IF AddU16(m.addr, n).err # "none" THEN Panic(m, AddU16(m.addr, n).err, op, args)
    ELSE Done([m EXCEPT !.addr = AddU16(m.addr, n).v], op, args)

SetRegister(m, r, v) == [m EXCEPT !.registers[r] = v]

Jump(m, a) == [m EXCEPT !.addr = a]

PushStack(m, v) == [m EXCEPT !.stack = Append(@, v)]

\* self.stack.pop() on a stack that is not empty: the machine without its top
PopStack(m) == [m EXCEPT !.stack = SubSeq(@, 1, Len(@) - 1)]

\* the first element pushed, where pop takes the last
Bottom(m) == m.stack[1]

Top(m) == m.stack[Len(m.stack)]

\* dump_state: the size of the image, the registers, the stack, running
\* and addr
DumpState(m) == <<"dump", Len(m.ram), m.registers, m.stack, m.running, m.addr>>

\* a char printed with "{}": its UTF-8 bytes
Utf8(c) == IF c < 128 THEN <<c>> ELSE <<192 + (c \div 64), 128 + (c % 64)>>

\* a stack operation, for hist
StackOp(op, v, m) == [op |-> op, v |-> v, pre |-> m.stack, pc |-> m.addr]

(***************************************************************************)
(* The arms of VM::step. Each arm resolves its operands in the order of    *)
(* the code and the first failure is the panic; the operator "...With"     *)
(* is the arm given its resolved operands.                                 *)
(***************************************************************************)
\* a halt that also moves the program counter
ExecHaltAdvancing(m) == Advance([m EXCEPT !.running = FALSE], 1, "halt", <<>>)

ExecHalt(m) == Done([m EXCEPT !.running = FALSE], "halt", <<>>)

SetWith(m, a, b) ==
    IF a.err # "none" THEN Panic(m, a.err, "set", <<>>)
    ELSE IF b.err # "none" THEN Panic(m, b.err, "set", <<a.v>>)
    ELSE Advance(SetRegister(m, a.v, b.v), 3, "set", <<a.v, b.v>>)

ExecSet(m) == SetWith(m, RegAt(m, 1), ValAt(m, 2))

PushWith(m, a) ==
    IF a.err # "none" THEN Panic(m, a.err, "push", <<>>)
    ELSE [Advance(PushStack(m, a.v), 2, "push", <<a.v>>)
            EXCEPT !.sops = <<StackOp("push", a.v, m)>>]

ExecPush(m) == PushWith(m, ValAt(m, 1))

\* a pop that takes the element before it resolves its operand
PopWithEager(m, a) ==
    IF m.stack = <<>> THEN Panic(m, "StackUnderflow", "pop", <<>>)
    ELSE IF a.err # "none" THEN Panic(PopStack(m), a.err, "pop", <<>>)
    ELSE [Advance(SetRegister(PopStack(m), a.v, Top(m)), 2, "pop", <<a.v, Top(m)>>)
            EXCEPT !.sops = <<StackOp("pop", Top(m), m)>>]

PopWith(m, a) ==
    IF a.err # "none" THEN Panic(m, a.err, "pop", <<>>)
    ELSE IF m.stack = <<>> THEN Panic(m, "StackUnderflow", "pop", <<a.v>>)
    ELSE [Advance(SetRegister(PopStack(m), a.v, Top(m)), 2, "pop", <<a.v, Top(m)>>)
            EXCEPT !.sops = <<StackOp("pop", Top(m), m)>>]

ExecPop(m) == PopWith(m, RegAt(m, 1))

\* the arms "op a b c": r is the value computed from b and c
AluStore(m, op, a, b, c, r) ==
    IF r.err # "none" THEN Panic(m, r.err, op, <<a, b, c>>)
    ELSE Advance(SetRegister(m, a, r.v), 4, op, <<a, b, c>>)

AluWith(m, op, F(_, _), a, b, c) ==
    IF a.err # "none" THEN Panic(m, a.err, op, <<>>)
    ELSE IF b.err # "none" THEN Panic(m, b.err, op, <<a.v>>)
    ELSE IF c.err # "none" THEN Panic(m, c.err, op, <<a.v, b.v>>)
    ELSE AluStore(m, op, a.v, b.v, c.v, F(b.v, c.v))

ExecAlu(m, op, F(_, _)) == AluWith(m, op, F, RegAt(m, 1), ValAt(m, 2), ValAt(m, 3))

EqOp(b, c) == Ok(IF b = c THEN 1 ELSE 0)
\* a comparison that holds for equal operands too
GtOpOrEqual(b, c) == Ok(IF b >= c THEN 1 ELSE 0)

GtOp(b, c) == Ok(IF b > c THEN 1 ELSE 0)

Reduce(s) == IF s.err # "none" THEN s ELSE Ok(s.v % Modulus)

\* (b + c) % 32768
AddOp(b, c) == Reduce(AddU16(b, c))

\* the product taken in 16 bits before the reduction
MultOpNarrow(b, c) == Reduce(MulU16(b, c))

\* (b as u32 * c as u32) % 32768, then as u16
MultOp(b, c) == Ok(((b * c) % Modulus) % U16)

\* (b % c) % 32768
ModOp(b, c) == IF c = 0 THEN Err("DivideByZero") ELSE Ok((b % c) % Modulus)

AndOp(b, c) == Ok(BitAnd(b, c, 16) % Modulus)

OrOp(b, c) == Ok(BitOr(b, c, 16) % Modulus)

\* the reduction applied to the operand, not to the complement
NotOpOfReduced(b) == BitNot(b % Modulus)

\* !b % 32768
NotOp(b) == BitNot(b) % Modulus

ExecEq(m) == ExecAlu(m, "eq", EqOp)
ExecGt(m) == ExecAlu(m, "gt", GtOp)
ExecAdd(m) == ExecAlu(m, "add", AddOp)
ExecMult(m) == ExecAlu(m, "mult", MultOp)
ExecMod(m) == ExecAlu(m, "mod", ModOp)
ExecAnd(m) == ExecAlu(m, "and", AndOp)
ExecOr(m) == ExecAlu(m, "or", OrOp)

JmpWith(m, a) ==
    IF a.err # "none" THEN Panic(m, a.err, "jmp", <<>>)
    ELSE Done(Jump(m, a.v), "jmp", <<a.v>>)

ExecJmp(m) == JmpWith(m, ValAt(m, 1))

\* a jt that takes its target as a byte offset
JtWithScaled(m, a, b) ==
    IF a.err # "none" THEN Panic(m, a.err, "jt", <<>>)
    ELSE IF b.err # "none" THEN Panic(m, b.err, "jt", <<a.v>>)
    ELSE IF a.v # 0 THEN Done(Jump(m, 2 * b.v), "jt", <<a.v, b.v>>)
    ELSE Advance(m, 3, "jt", <<a.v, b.v>>)

JtWith(m, a, b) ==
    IF a.err # "none" THEN Panic(m, a.err, "jt", <<>>)
    ELSE IF b.err # "none" THEN Panic(m, b.err, "jt", <<a.v>>)
    ELSE IF a.v # 0 THEN Done(Jump(m, b.v), "jt", <<a.v, b.v>>)
    ELSE Advance(m, 3, "jt", <<a.v, b.v>>)

ExecJt(m) == JtWith(m, ValAt(m, 1), ValAt(m, 2))

JfWith(m, a, b) ==
    IF a.err # "none" THEN Panic(m, a.err, "jf", <<>>)
    ELSE IF b.err # "none" THEN Panic(m, b.err, "jf", <<a.v>>)
    ELSE IF a.v = 0 THEN Done(Jump(m, b.v), "jf", <<a.v, b.v>>)
    ELSE Advance(m, 3, "jf", <<a.v, b.v>>)

ExecJf(m) == JfWith(m, ValAt(m, 1), ValAt(m, 2))

NotWith(m, a, b) ==
    IF a.err # "none" THEN Panic(m, a.err, "not", <<>>)
    ELSE IF b.err # "none" THEN Panic(m, b.err, "not", <<a.v>>)
    ELSE Advance(SetRegister(m, a.v, NotOp(b.v)), 3, "not", <<a.v, b.v>>)

ExecNot(m) == NotWith(m, RegAt(m, 1), ValAt(m, 2))

RmemStore(m, a, b, num) ==
    IF num.err # "none" THEN Panic(m, num.err, "rmem", <<a, b>>)
    ELSE Advance(SetRegister(m, a, num.v), 3, "rmem", <<a, b>>)

RmemWith(m, a, b) ==
    IF a.err # "none" THEN Panic(m, a.err, "rmem", <<>>)
    ELSE IF b.err # "none" THEN Panic(m, b.err, "rmem", <<a.v>>)
    ELSE RmemStore(m, a.v, b.v, GetRam(m, b.v))

ExecRmem(m) == RmemWith(m, RegAt(m, 1), ValAt(m, 2))

\* self.ram[(a * 2) as usize] = low as u8; self.ram[(a * 2) as usize + 1] =
\* high as u8, with p the result of a * 2
WmemStore(m, a, b, p) ==
    IF p.err # "none" THEN Panic(m, p.err, "wmem", <<a, b>>)
    ELSE IF p.v >= Len(m.ram) THEN Panic(m, "OutOfBounds", "wmem", <<a, b>>)
    ELSE IF p.v + 1 >= Len(m.ram)
    THEN Panic([m EXCEPT !.ram[p.v + 1] = (b % 256) % 256], "OutOfBounds", "wmem", <<a, b>>)
    ELSE Advance([m EXCEPT !.ram[p.v + 1] = (b % 256) % 256,
                           !.ram[p.v + 2] = (b \div 256) % 256], 3, "wmem", <<a, b>>)

WmemWith(m, a, b) ==
    IF a.err # "none" THEN Panic(m, a.err, "wmem", <<>>)
    ELSE IF b.err # "none" THEN Panic(m, b.err, "wmem", <<a.v>>)
    ELSE WmemStore(m, a.v, b.v, MulU16(a.v, 2))

ExecWmem(m) == WmemWith(m, ValAt(m, 1), ValAt(m, 2))

\* push_stack(self.addr + 2); self.level += 1; self.jump(a), with next the
\* result of self.addr + 2
CallPush(m, a, next) ==
    IF next.err # "none" THEN Panic(m, next.err, "call", <<a>>)
    ELSE [Done(Jump([PushStack(m, next.v) EXCEPT !.level = @ + 1], a), "call", <<a>>)
            EXCEPT !.sops = <<StackOp("call", next.v, m)>>]

CallWith(m, a) ==
    IF a.err # "none" THEN Panic(m, a.err, "call", <<>>)
    ELSE CallPush(m, a.v, AddU16(m.addr, 2))

ExecCall(m) == CallWith(m, ValAt(m, 1))

\* self.level -= 1; self.jump(addr), after the pop, with l the result of
\* self.level - 1
RetJump(m, l) ==
    IF l.err # "none"
    THEN [Panic(PopStack(m), l.err, "ret", <<Top(m)>>)
            EXCEPT !.sops = <<StackOp("ret", Top(m), m)>>]
    ELSE [Done(Jump([PopStack(m) EXCEPT !.level = l.v], Top(m)), "ret", <<Top(m)>>)
            EXCEPT !.sops = <<StackOp("ret", Top(m), m)>>]

\* the usize subtraction level -= 1 panics when overflow checks are on and
\* wraps otherwise; the wrapped value is kept as its signed residue modulo
\* 2^64, so that -1 stands for usize::MAX
ExecRet(m) ==
    IF m.stack = <<>> THEN Panic(m, "StackUnderflow", "ret", <<>>)
    ELSE RetJump(m, IF m.level < 1 /\ overflow_checks THEN Err("Overflow")
                    ELSE Ok(m.level - 1))

OutWith(m, a) ==
    IF a.err # "none" THEN Panic(m, a.err, "out", <<>>)
    ELSE [Advance(m, 2, "out", <<a.v>>) EXCEPT !.emitted = Utf8(a.v % 256)]

ExecOut(m) == OutWith(m, ValAt(m, 1))

\* a no-op that skips a word
ExecNoopSkipping(m) == Advance(m, 2, "no-op", <<>>)

ExecNoop(m) == Advance(m, 1, "no-op", <<>>)

ExecUnknown(m, n) ==
    [Panic(m, "UnknownOpcode", "unknown", <<n>>) EXCEPT !.printed = <<DumpState(m)>>]

(***************************************************************************)
(* The snapshot: serde_json of the derived Serialize / Deserialize of VM   *)
(***************************************************************************)
\* serde_json::to_string(&self): the fields in declaration order, the
\* register array as a JSON array (indexed from its first element)
ToJson(m) ==
    << <<"ram", m.ram>>,
       <<"registers", [i \in 1 .. NumRegisters |-> m.registers[i - 1]]>>,
       <<"addr", m.addr>>,
       <<"stack", m.stack>>,
       <<"running", m.running>>,
       <<"level", m.level>>,
       <<"input_buffer", m.input_buffer>> >>

JsonField(text, key) == text[CHOOSE i \in 1 .. Len(text) : text[i][1] = key][2]

\* a reader that leaves the stack out
FromJsonNoStack(text) ==
    [ram |-> JsonField(text, "ram"),
     registers |-> [r \in 0 .. NumRegisters - 1 |-> JsonField(text, "registers")[r + 1]],
     addr |-> JsonField(text, "addr"),
     stack |-> <<>>,
     running |-> JsonField(text, "running"),
     level |-> JsonField(text, "level"),
     input_buffer |-> JsonField(text, "input_buffer")]

\* serde_json::from_str(&data)
FromJson(text) ==
    [ram |-> JsonField(text, "ram"),
     registers |-> [r \in 0 .. NumRegisters - 1 |-> JsonField(text, "registers")[r + 1]],
     addr |-> JsonField(text, "addr"),
     stack |-> JsonField(text, "stack"),
     running |-> JsonField(text, "running"),
     level |-> JsonField(text, "level"),
     input_buffer |-> JsonField(text, "input_buffer")]

(***************************************************************************)
(* The in arm and the debug commands                                       *)
(***************************************************************************)
\* str::parse::<u16> of a token given as its decimal digits
RECURSIVE Digits(_)
Digits(ds) == IF ds = <<>> THEN 0 ELSE 10 * Digits(SubSeq(ds, 1, Len(ds) - 1)) + ds[Len(ds)]

ParseU16(ds) ==
    IF ds = <<>> THEN Err("ParseError")
    ELSE IF Digits(ds) >= U16 THEN Err("ParseError")
    ELSE Ok(Digits(ds))

\* eprint!("\x1b[{}m{}\x1b[0m", color, c as char)
Echo(color, c) ==
    <<27, 91, 48 + (color \div 10), 48 + (color % 10), 109>> \o Utf8(c) \o <<27, 91, 48, 109>>

Exists(fs, file) == fs[file].kind # "absent"

\* the set command given its parsed tokens
SetCommand(m, words, register, value) ==
    IF register.err # "none" THEN Panic(m, register.err, "set", <<>>)
    ELSE IF words < 3 THEN Panic(m, "CommandIndex", "set", <<register.v>>)
    ELSE IF value.err # "none" THEN Panic(m, value.err, "set", <<register.v>>)
    ELSE IF register.v >= NumRegisters
    THEN [Panic(m, "RegisterIndex", "set", <<register.v, value.v>>)
            EXCEPT !.printed = << <<"updating register", register.v, value.v>> >>]
    ELSE [Done(SetRegister(m, register.v, value.v), "set", <<register.v, value.v>>)
            EXCEPT !.printed = << <<"updating register", register.v, value.v>> >>]

\* save and export without the fs::exists test
WriteCommandOverwriting(m, cmd, fs, data) ==
    IF cmd.words < 2 THEN Panic(m, "CommandIndex", cmd.name, <<>>)
    ELSE [Done(m, cmd.name, <<>>)
            EXCEPT !.printed = << <<"file saved to", cmd.path>> >>,
                   !.wrote = <<[path |-> cmd.path, data |-> data]>>]

\* save and export: data is what the command writes
WriteCommand(m, cmd, fs, data) ==
    IF cmd.words < 2 THEN Panic(m, "CommandIndex", cmd.name, <<>>)
    ELSE IF Exists(fs, cmd.path)
    THEN [Done(m, cmd.name, <<>>)
            EXCEPT !.printed = << <<"file already exists, doing nothing">> >>]
    ELSE [Done(m, cmd.name, <<>>)
            EXCEPT !.printed = << <<"file saved to", cmd.path>> >>,
                   !.wrote = <<[path |-> cmd.path, data |-> data]>>]

\* cmd: the line after the escape character, split at whitespace: words is
\* the number of tokens, name the first, arg1 and arg2 the digits of the
\* next two, path the second token of save and export
ProcessInternalCommand(m, cmd, fs) ==
    IF cmd.words = 0 THEN Panic(m, "CommandIndex", "command", <<>>)
    ELSE IF cmd.name = "dump" THEN [Done(m, "dump", <<>>) EXCEPT !.printed = <<DumpState(m)>>]
    ELSE IF cmd.name = "set" THEN
        IF cmd.words < 2 THEN Panic(m, "CommandIndex", "set", <<>>)
        ELSE SetCommand(m, cmd.words, ParseU16(cmd.arg1), ParseU16(cmd.arg2))
    ELSE IF cmd.name = "save" THEN WriteCommand(m, cmd, fs, [kind |-> "raw", bytes |-> m.ram])
    ELSE IF cmd.name = "export"
    THEN WriteCommand(m, cmd, fs, [kind |-> "json", text |-> ToJson(m)])
    ELSE Panic(m, "UnknownCommand", "command", <<>>)

\* an in arm that looks for the escape character in the input buffer too
InWithEscapeInBuffer(m, inp, fs, a) ==
    IF a.err # "none" THEN Panic(m, a.err, "in", <<>>)
    ELSE IF m.input_buffer # <<>> /\ Head(m.input_buffer) = EscapeChar
    THEN ProcessInternalCommand([m EXCEPT !.input_buffer = Tail(@)],
                                [words |-> 1, name |-> "dump", arg1 |-> <<>>, arg2 |-> <<>>,
                                 path |-> ""], fs)
    ELSE IF m.input_buffer # <<>>
    THEN [Advance(SetRegister([m EXCEPT !.input_buffer = Tail(@)], a.v, Head(m.input_buffer)),
                  2, "in", <<a.v, Head(m.input_buffer)>>)
            EXCEPT !.emitted = Echo(31, Head(m.input_buffer))]
    ELSE IF inp.eof THEN Panic(m, "InputEof", "in", <<a.v>>)
    ELSE IF inp.byte = EscapeChar THEN ProcessInternalCommand(m, inp.cmd, fs)
    ELSE [Advance(SetRegister(m, a.v, inp.byte), 2, "in", <<a.v, inp.byte>>)
            EXCEPT !.emitted = Echo(32, inp.byte)]

\* an in arm that takes the last byte of the input buffer
InWithFromEnd(m, inp, fs, a) ==
    IF a.err # "none" THEN Panic(m, a.err, "in", <<>>)
    ELSE IF m.input_buffer # <<>>
    THEN [Advance(SetRegister([m EXCEPT !.input_buffer = SubSeq(@, 1, Len(@) - 1)], a.v,
                              m.input_buffer[Len(m.input_buffer)]),
                  2, "in", <<a.v, m.input_buffer[Len(m.input_buffer)]>>)
            EXCEPT !.emitted = Echo(31, m.input_buffer[Len(m.input_buffer)])]
    ELSE IF inp.eof THEN Panic(m, "InputEof", "in", <<a.v>>)
    ELSE IF inp.byte = EscapeChar THEN ProcessInternalCommand(m, inp.cmd, fs)
    ELSE [Advance(SetRegister(m, a.v, inp.byte), 2, "in", <<a.v, inp.byte>>)
            EXCEPT !.emitted = Echo(32, inp.byte)]

\* an in arm that goes on to the next instruction after a command
InWithFallThrough(m, inp, fs, a) ==
    IF a.err # "none" THEN Panic(m, a.err, "in", <<>>)
    ELSE IF m.input_buffer # <<>>
    THEN [Advance(SetRegister([m EXCEPT !.input_buffer = Tail(@)], a.v, Head(m.input_buffer)),
                  2, "in", <<a.v, Head(m.input_buffer)>>)
            EXCEPT !.emitted = Echo(31, Head(m.input_buffer))]
    ELSE IF inp.eof THEN Panic(m, "InputEof", "in", <<a.v>>)
    ELSE IF inp.byte = EscapeChar
    THEN [ProcessInternalCommand(m, inp.cmd, fs) EXCEPT !.m.addr = @ + 2]
    ELSE [Advance(SetRegister(m, a.v, inp.byte), 2, "in", <<a.v, inp.byte>>)
            EXCEPT !.emitted = Echo(32, inp.byte)]

\* inp: what stdin holds: eof, or a byte and, after the escape character,
\* the command line
InWith(m, inp, fs, a) ==
    IF a.err # "none" THEN Panic(m, a.err, "in", <<>>)
    ELSE IF m.input_buffer # <<>>
    THEN [Advance(SetRegister([m EXCEPT !.input_buffer = Tail(@)], a.v, Head(m.input_buffer)),
                  2, "in", <<a.v, Head(m.input_buffer)>>)
            EXCEPT !.emitted = Echo(31, Head(m.input_buffer))]
    ELSE IF inp.eof THEN Panic(m, "InputEof", "in", <<a.v>>)
    ELSE IF inp.byte = EscapeChar THEN ProcessInternalCommand(m, inp.cmd, fs)
    ELSE [Advance(SetRegister(m, a.v, inp.byte), 2, "in", <<a.v, inp.byte>>)
            EXCEPT !.emitted = Echo(32, inp.byte)]

ExecIn(m, inp, fs) == InWith(m, inp, fs, RegAt(m, 1))

(***************************************************************************)
(* VM::step as a function of the machine, stdin and the file system        *)
(***************************************************************************)
\* the number of operand words the arm of opcode n reads
Operands(n) ==
    CASE n \in {0, 18, 21} -> 0
      [] n \in {2, 3, 6, 17, 19, 20} -> 1
      [] n \in {1, 7, 8, 14, 15, 16} -> 2
      [] n \in {4, 5, 9, 10, 11, 12, 13} -> 3

\* the opcodes whose first operand is read with get_register
DestOpcodes == {1, 3, 4, 5, 9, 10, 11, 12, 13, 14, 15, 20}

Dispatch(m, inp, fs, instruction) ==
    IF instruction.err # "none" THEN Panic(m, instruction.err, "fetch", <<>>)
    ELSE CASE instruction.v = 0 -> ExecHalt(m)
           [] instruction.v = 1 -> ExecSet(m)
           [] instruction.v = 2 -> ExecPush(m)
           [] instruction.v = 3 -> ExecPop(m)
           [] instruction.v = 4 -> ExecEq(m)
           [] instruction.v = 5 -> ExecGt(m)
           [] instruction.v = 6 -> ExecJmp(m)
           [] instruction.v = 7 -> ExecJt(m)
           [] instruction.v = 8 -> ExecJf(m)
           [] instruction.v = 9 -> ExecAdd(m)
           [] instruction.v = 10 -> ExecMult(m)
           [] instruction.v = 11 -> ExecMod(m)
           [] instruction.v = 12 -> ExecAnd(m)
           [] instruction.v = 13 -> ExecOr(m)
           [] instruction.v = 14 -> ExecNot(m)
           [] instruction.v = 15 -> ExecRmem(m)
           [] instruction.v = 16 -> ExecWmem(m)
           [] instruction.v = 17 -> ExecCall(m)
           [] instruction.v = 18 -> ExecRet(m)
           [] instruction.v = 19 -> ExecOut(m)
           [] instruction.v = 20 -> ExecIn(m, inp, fs)
           [] instruction.v = 21 -> ExecNoop(m)
           [] OTHER -> ExecUnknown(m, instruction.v)

Step(m, inp, fs) == Dispatch(m, inp, fs, Fetch(m))

(***************************************************************************)
(* Inputs: program images, snapshots, command files, stdin                 *)
(***************************************************************************)
\* operand words: two register references, a literal, an invalid word
RegOperands == {32768, 32770, 3, 32776}
ValOperands == {32768, 32769, 2, 32776}

\* one instruction, as words; the words that are not opcodes are 22, a
\* register reference and an invalid word; the source operands of a
\* three-operand instruction have an invalid word in at most one place
Instructions ==
    {<<op>> : op \in {0, 18, 21} \cup {22, 32768, 32776}}
    \cup {<<op, a>> : op \in {2, 6, 17, 19}, a \in ValOperands}
    \cup {<<op, a>> : op \in {3, 20}, a \in RegOperands}
    \cup {<<op, a, b>> : op \in {1, 14, 15}, a \in RegOperands, b \in ValOperands}
    \cup {<<op, a, b>> : op \in {7, 8, 16}, a \in ValOperands, b \in ValOperands}
    \cup {<<op, a, bc[1], bc[2]>> : op \in {4, 5, 9, 10, 11, 12, 13},
                                    a \in RegOperands,
            bc \in {<<b, c>> : b \in ValOperands \ {32776}, c \in ValOperands \ {32776}}
                     \cup {<<32776, 2>>, <<2, 32776>>}}

\* programs of several instructions
Programs ==
    { <<17, 2, 2, 5, 18, 18>>,                      \* call 2; push 5; ret; ret
      <<17, 3, 0, 18>>,                             \* call 3; halt; ret
      <<2, 32768, 2, 32769, 2, 7, 3, 32770, 3, 32771, 3, 32772, 0>>,
                                                    \* push r0, r1, 7; pop r2, r3, r4; halt
      <<16, 32768, 32769, 15, 32770, 32768, 0>>,    \* wmem r0 r1; rmem r2 r0; halt
      <<20, 32768, 19, 32768, 6, 0>>,               \* in r0; out r0; jmp 0
      <<1, 32768, 5, 19, 32768, 0>>,                \* set r0 5; out r0; halt
      <<16, 300, 5, 15, 32768, 300>>,               \* wmem 300 5; rmem r0 300
      <<15, 32768, 1, 0>>,                          \* rmem r0 1; halt
      <<21, 21>> }                                  \* no-op; no-op

\* the image files: every program, and some cut short (the last one in the
\* middle of a word)
Images ==
    {Pack(p) : p \in Instructions \cup Programs}
    \cup {SubSeq(Pack(p), 1, n) : p \in {<<21, 21>>, <<9, 32768, 2, 2>>}, n \in {0, 2, 3}}

\* register contents a snapshot can hold
RegVals == {0, 300, 32767, 40000}

Paths == {"state"}

NoCmd == [words |-> 0, name |-> "", arg1 |-> <<>>, arg2 |-> <<>>, path |-> ""]
NoInput == [eof |-> TRUE, byte |-> 0, cmd |-> NoCmd]
CmdInput(c) == [eof |-> FALSE, byte |-> EscapeChar, cmd |-> c]

(***************************************************************************)
(* main: the machine is built from an image or from a snapshot, and the    *)
(* command file, when given, replaces its input buffer                     *)
(***************************************************************************)
Load(m, script) == IF script = <<>> THEN m ELSE [m EXCEPT !.input_buffer = script[1]]

Start(m) ==
    /\ ram = m.ram
    /\ registers = m.registers
    /\ addr = m.addr
    /\ stack = m.stack
    /\ running = m.running
    /\ level = m.level
    /\ input_buffer = m.input_buffer
    /\ fault = "none"
    /\ emitted = <<>>
    /\ printed = <<>>
    /\ last = [op |-> "load", args |-> <<>>]
    /\ files = [p \in Paths |-> NoFile]
    /\ hist = <<>>
    /\ twin = NoTwin

InitImage ==
    /\ overflow_checks \in BOOLEAN
    \* the command file of the second argument: none, or its bytes
    /\ \E rom \in Images, script \in { <<>>, << <<47, 10>> >> } :
          Start(Load(New(rom), script))
    /\ search = <<>> /\ solver = <<>>

InitSnapshot ==
    /\ overflow_checks \in BOOLEAN
    \* the machines a snapshot file can hold
    /\ \E rom \in Images, r0 \in RegVals, r1 \in RegVals,
          sl \in {<< <<>>, 0 >>, << <<2>>, 1 >>} :
          Start(Load([New(rom) EXCEPT !.registers[0] = r0, !.registers[1] = r1,
                                      !.stack = sl[1], !.level = sl[2]], <<>>))
    /\ search = <<>> /\ solver = <<>>

Init == InitImage \/ InitSnapshot

(***************************************************************************)
(* The run loop: while !vm.is_halted() { vm.step() }                       *)
(***************************************************************************)
Live == fault = "none" /\ running

\* the instruction word is n
Is(instruction, n) == instruction.err = "none" /\ instruction.v = n

Decoded(n) == Live /\ Is(Fetch(Self), n)

NotAnOpcode(instruction) == instruction.err = "none" /\ instruction.v \notin 0 .. 21

Write(fs, ws) ==
    [p \in DOMAIN fs |-> IF \E i \in 1 .. Len(ws) : ws[i].path = p
                         THEN ws[CHOOSE i \in 1 .. Len(ws) : ws[i].path = p].data
                         ELSE fs[p]]

\* the resumed process takes the same step on the same input
AfterStep(t, r) ==
    [m |-> r.m, fault |-> r.fault, emitted |-> r.emitted, printed |-> r.printed,
     fs |-> Write(t.fs, r.wrote)]

StepTwin(t, inp) ==
    IF t.fault # "none" \/ ~t.m.running THEN t
    ELSE AfterStep(t, Step(t.m, inp, t.fs))

Commit(r, inp) ==
    /\ ram' = r.m.ram
    /\ registers' = r.m.registers
    /\ addr' = r.m.addr
    /\ stack' = r.m.stack
    /\ running' = r.m.running
    /\ level' = r.m.level
    /\ input_buffer' = r.m.input_buffer
    /\ fault' = r.fault
    /\ emitted' = r.emitted
    /\ printed' = r.printed
    /\ last' = r.last
    /\ files' = Write(files, r.wrote)
    /\ hist' = IF Len(hist \o r.sops) > HistLen
               THEN SubSeq(hist \o r.sops, Len(hist \o r.sops) - HistLen + 1,
                           Len(hist \o r.sops))
               ELSE hist \o r.sops
    /\ twin' = IF twin = NoTwin THEN NoTwin ELSE <<StepTwin(twin[1], inp)>>
    /\ UNCHANGED <<overflow_checks, search, solver>>

Run(inp) == Commit(Step(Self, inp, files), inp)

FetchFault == Live /\ Fetch(Self).err # "none" /\ Run(NoInput)
Halt == Decoded(0) /\ Run(NoInput)
Set == Decoded(1) /\ Run(NoInput)
Push == Decoded(2) /\ Len(stack) < MaxStack /\ Run(NoInput)
Pop == Decoded(3) /\ Run(NoInput)
Eq == Decoded(4) /\ Run(NoInput)
Gt == Decoded(5) /\ Run(NoInput)
Jmp == Decoded(6) /\ Run(NoInput)
Jt == Decoded(7) /\ Run(NoInput)
Jf == Decoded(8) /\ Run(NoInput)
Add == Decoded(9) /\ Run(NoInput)
Mult == Decoded(10) /\ Run(NoInput)
Mod == Decoded(11) /\ Run(NoInput)
And == Decoded(12) /\ Run(NoInput)
Or == Decoded(13) /\ Run(NoInput)
Not == Decoded(14) /\ Run(NoInput)
Rmem == Decoded(15) /\ Run(NoInput)
Wmem == Decoded(16) /\ Run(NoInput)
Call == Decoded(17) /\ Len(stack) < MaxStack /\ level < MaxLevel /\ Run(NoInput)
Ret == Decoded(18) /\ Run(NoInput)
Out == Decoded(19) /\ Run(NoInput)
Noop == Decoded(21) /\ Run(NoInput)
Unknown == Live /\ NotAnOpcode(Fetch(Self)) /\ Run(NoInput)

\* in reads stdin only with a register operand and an empty input buffer
ReadsStdin == Decoded(20) /\ RegAt(Self, 1).err = "none" /\ input_buffer = <<>>

InBuffered == Decoded(20) /\ ~ReadsStdin /\ Run(NoInput)
InEof == ReadsStdin /\ Run(NoInput)
InByte ==
    ReadsStdin /\ \E b \in {10, 97, 200} : Run([eof |-> FALSE, byte |-> b, cmd |-> NoCmd])
InDump == ReadsStdin /\ Run(CmdInput([NoCmd EXCEPT !.words = 1, !.name = "dump"]))
InSet ==
    /\ ReadsStdin
    \* the register and value tokens of a set command: 0, 8; 42, 40000, 70000
    /\ \E r \in {<<0>>, <<8>>}, v \in {<<4, 2>>, <<4, 0, 0, 0, 0>>, <<7, 0, 0, 0, 0>>},
          n \in {2, 3} :
          Run(CmdInput([NoCmd EXCEPT !.words = n, !.name = "set", !.arg1 = r,
                                     !.arg2 = IF n = 3 THEN v ELSE <<>>]))
InSave ==
    /\ ReadsStdin
    /\ \E p \in Paths :
          Run(CmdInput([NoCmd EXCEPT !.words = 2, !.name = "save", !.path = p]))
InExport ==
    /\ ReadsStdin
    /\ \E p \in Paths :
          Run(CmdInput([NoCmd EXCEPT !.words = 2, !.name = "export", !.path = p]))
InBadCommand ==
    /\ ReadsStdin
    /\ \E c \in {NoCmd, [NoCmd EXCEPT !.words = 1, !.name = "quit"],
                        [NoCmd EXCEPT !.words = 1, !.name = "save"]} : Run(CmdInput(c))

\* a second process is started on the snapshot the last step exported (not
\* given a command file)
Resume ==
    /\ Live
    /\ twin = NoTwin
    /\ last.op = "export"
    /\ Len(printed) = 1 /\ printed[1][1] = "file saved to"
    /\ twin' = <<[m |-> Load(FromJson(files[printed[1][2]].text), <<>>), fault |-> "none",
                  emitted |-> <<>>, printed |-> <<>>, fs |-> files]>>
    /\ UNCHANGED <<ram, registers, addr, stack, running, level, input_buffer,
                   overflow_checks, fault, emitted, printed, last, files, hist,
                   search, solver>>

Next ==
    \/ FetchFault \/ Halt \/ Set \/ Push \/ Pop \/ Eq \/ Gt \/ Jmp \/ Jt \/ Jf
    \/ Add \/ Mult \/ Mod \/ And \/ Or \/ Not \/ Rmem \/ Wmem \/ Call \/ Ret
    \/ Out \/ Noop \/ Unknown
    \/ InBuffered \/ InEof \/ InByte \/ InDump \/ InSet \/ InSave \/ InExport
    \/ InBadCommand \/ Resume

Spec == Init /\ [][Next]_vars

\* the runs that start from a program image
SpecImage == InitImage /\ [][Next]_vars

(***************************************************************************)
(* Properties                                                              *)
(***************************************************************************)
\* the machine is about to execute the instruction whose word is n
Instr(n) == Live /\ Is(GetRam(Self, addr), n)

\* a step of the run loop (every action but Resume)
IsStep == ~(twin = NoTwin /\ twin' # NoTwin)

InWordRange(x) == x \in 0 .. Modulus - 1

\* C1: a ret (word 18 at the program counter) executed with an empty stack
\* ends with running false, raises no error and leaves registers, memory and
\* stack unchanged.
C1_RetOnEmptyStackHalts ==
    [][(Instr(18) /\ IsStep /\ stack = <<>>)
          => (~running' /\ fault' = "none" /\ UNCHANGED <<registers, ram, stack>>)]_vars

\* what call does
C2_CallPushesReturn ==
    (Instr(17) /\ IsStep /\ ValAt(Self, 1).err = "none")
        => /\ fault' = "none"
           /\ stack' = Append(stack, addr + 2)
           /\ addr' = ValAt(Self, 1).v
           /\ UNCHANGED <<registers, ram>>

\* what ret does when the stack is what some call left
C2_RetRestores ==
    \A i \in 1 .. Len(hist) :
        (Instr(18) /\ IsStep /\ hist[i].op = "call" /\ stack = Append(hist[i].pre, hist[i].v))
            => /\ fault' = "none"
               /\ addr' = hist[i].pc + 2
               /\ stack' = hist[i].pre
               /\ UNCHANGED <<registers, ram>>

\* C2: a call at P with resolved target T pushes exactly P + 2 and sets the
\* program counter to T; a ret executed when the stack is what it was right
\* after that call sets the program counter to P + 2 and leaves the stack as
\* it was before the call; neither changes registers or memory.
C2_CallRetRoundTrip == [][C2_CallPushesReturn /\ C2_RetRestores]_vars

\* the operands of a three-operand instruction resolve, to values in
\* [0, 32767]
AluCase(n) ==
    /\ Instr(n) /\ IsStep
    /\ RegAt(Self, 1).err = "none"
    /\ ValAt(Self, 2).err = "none" /\ InWordRange(ValAt(Self, 2).v)
    /\ ValAt(Self, 3).err = "none" /\ InWordRange(ValAt(Self, 3).v)

Stores(a, v) == fault' = "none" /\ registers' = [registers EXCEPT ![a] = v] /\ InWordRange(v)

\* C3: for operand values x, y in [0, 32767], add stores (x + y) mod 32768
\* and mult stores (x * y) mod 32768 in the destination register, and the
\* stored value is in [0, 32767].
C3_AddMultExact ==
    [][/\ AluCase(9) => Stores(RegAt(Self, 1).v, (ValAt(Self, 2).v + ValAt(Self, 3).v) % 32768)
       /\ AluCase(10) => Stores(RegAt(Self, 1).v, (ValAt(Self, 2).v * ValAt(Self, 3).v) % 32768)
      ]_vars

C3_Witness ==
    /\ last.op = "mult" /\ fault = "none" /\ Len(last.args) = 3
    /\ InWordRange(last.args[2]) /\ InWordRange(last.args[3])
    /\ last.args[2] * last.args[3] > 65535
    /\ registers[last.args[1]] = (last.args[2] * last.args[3]) % 32768

\* C4: for x in [0, 32767], not stores 32767 - x, which is (~x) & 0x7FFF, and
\* not applied to that result gives x again.
C4_NotInvolution ==
    [][(/\ Instr(14) /\ IsStep
        /\ RegAt(Self, 1).err = "none"
        /\ ValAt(Self, 2).err = "none" /\ InWordRange(ValAt(Self, 2).v))
          => /\ Stores(RegAt(Self, 1).v, 32767 - ValAt(Self, 2).v)
             /\ BitAnd(65535 - ValAt(Self, 2).v, 32767, 16) = registers'[RegAt(Self, 1).v]
             /\ NotOp(registers'[RegAt(Self, 1).v]) = ValAt(Self, 2).v
      ]_vars

C4_Witness ==
    /\ last.op = "not" /\ fault = "none" /\ Len(last.args) = 2
    /\ last.args[2] \in 1 .. 32767
    /\ registers[last.args[1]] = 32767 - last.args[2]

\* the operands of wmem resolve, to an address and a value in [0, 32767]
WmemCase ==
    /\ Instr(16) /\ IsStep
    /\ ValAt(Self, 1).err = "none" /\ InWordRange(ValAt(Self, 1).v)
    /\ ValAt(Self, 2).err = "none" /\ InWordRange(ValAt(Self, 2).v)

\* wmem writes the two bytes of its word and nothing else
C5_WmemWrites ==
    WmemCase
        => /\ fault' = "none"
           /\ Len(ram') = Len(ram)
           /\ \A i \in 1 .. Len(ram) :
                 i \notin {2 * ValAt(Self, 1).v + 1, 2 * ValAt(Self, 1).v + 2} => ram'[i] = ram[i]
           /\ GetRam(Self', ValAt(Self, 1).v) = Ok(ValAt(Self, 2).v)

\* rmem of the address just written
C5_RmemReadsBack ==
    (/\ Instr(15) /\ IsStep
     /\ last.op = "wmem" /\ fault = "none" /\ Len(last.args) = 2
     /\ RegAt(Self, 1).err = "none"
     /\ ValAt(Self, 2).err = "none" /\ ValAt(Self, 2).v = last.args[1])
        => fault' = "none" /\ registers'[RegAt(Self, 1).v] = last.args[2]

\* C5: for every address a and value b in [0, 32767], wmem a b changes only
\* the two bytes of word a, and wmem a b followed by rmem c a leaves b in
\* register c.
C5_WmemRmemRoundTrip == [][C5_WmemWrites /\ C5_RmemReadsBack]_vars

\* the operands of rmem resolve
RmemCase ==
    /\ Instr(15) /\ IsStep
    /\ RegAt(Self, 1).err = "none"
    /\ ValAt(Self, 2).err = "none"

\* the instruction fetch at an address in [0, 32767]
C6_FetchInRange ==
    (Live /\ IsStep /\ InWordRange(addr)) => ~(last'.op = "fetch" /\ fault' = "OutOfBounds")

\* rmem at an address in [0, 32767] reads the word there
C6_RmemInRange ==
    (RmemCase /\ InWordRange(ValAt(Self, 2).v))
        => fault' = "none" /\ registers'[RegAt(Self, 1).v] = GetRam(Self, ValAt(Self, 2).v).v

\* wmem at an address in [0, 32767]
C6_WmemInRange == WmemCase => fault' = "none"

\* rmem at an address >= 32768
C6_RmemOutOfRange == (RmemCase /\ ~InWordRange(ValAt(Self, 2).v)) => fault' = "OutOfBounds"

\* C6: whatever the length of the image, the instruction fetch, rmem and
\* wmem succeed at every address in [0, 32767], and an access at an address
\* >= 32768 fails with an OutOfBounds error.
C6_AddressSpace ==
    [][C6_FetchInRange /\ C6_RmemInRange /\ C6_WmemInRange /\ C6_RmemOutOfRange]_vars

\* in has read the escape character and run a well-formed debug command
RanCommand ==
    /\ Instr(20) /\ IsStep /\ ReadsStdin
    /\ last'.op \in {"dump", "set", "save", "export"} /\ fault' = "none"

\* C7: a debug command run by in leaves the program counter, stack, memory,
\* running flag and input buffer unchanged and the in instruction writes no
\* register; set r v changes register r only; the next step executes the
\* same in instruction again.
C7_DebugCommandsDoNotAdvance ==
    [][RanCommand
          => /\ UNCHANGED <<addr, stack, ram, running, input_buffer>>
             /\ IF last'.op = "set"
                THEN registers' = [registers EXCEPT ![last'.args[1]] = last'.args[2]]
                ELSE registers' = registers
             /\ Instr(20)'
      ]_vars

C7_Witness ==
    /\ last.op = "set" /\ fault = "none" /\ Instr(20) /\ ReadsStdin
    /\ registers[last.args[1]] = last.args[2]
    /\ last.args[2] = 40000

C9_UnknownOpcodeIsFatal ==
    [][(Live /\ IsStep /\ NotAnOpcode(GetRam(Self, addr)))
          => fault' = "UnknownOpcode" /\ UNCHANGED <<registers, stack, ram, addr>>]_vars

\* the last six stack operations are three pushes and then three pops
PushedThreePoppedThree ==
    /\ Len(hist) >= 6
    /\ \A k \in 1 .. 3 : hist[Len(hist) - 6 + k].op = "push"
    /\ \A k \in 4 .. 6 : hist[Len(hist) - 6 + k].op = "pop"

\* a pop stores the value it took in its destination register
C10_PopStores ==
    (last.op = "pop" /\ fault = "none")
        => registers[last.args[1]] = last.args[2] /\ hist[Len(hist)].v = last.args[2]

\* C10: three pushes of v1, v2, v3 followed by three pops, with no other
\* stack operation in between, pop v3, v2, v1 in that order, each into the
\* pop's destination register, and leave the stack as it was before the
\* first push.
C10_StackLifo ==
    /\ C10_PopStores
    /\ PushedThreePoppedThree
          => /\ hist[Len(hist) - 2].v = hist[Len(hist) - 3].v
             /\ hist[Len(hist) - 1].v = hist[Len(hist) - 4].v
             /\ hist[Len(hist)].v = hist[Len(hist) - 5].v
             /\ last.op = "pop" => stack = hist[Len(hist) - 5].pre

C10_Witness ==
    /\ PushedThreePoppedThree /\ last.op = "pop" /\ fault = "none"
    /\ hist[Len(hist) - 5].v # hist[Len(hist) - 4].v
    /\ hist[Len(hist) - 4].v # hist[Len(hist) - 3].v
    /\ hist[Len(hist) - 5].v # hist[Len(hist) - 3].v
    /\ registers[2] = hist[Len(hist) - 3].v
    /\ registers[3] = hist[Len(hist) - 4].v
    /\ registers[4] = hist[Len(hist) - 5].v
    /\ hist[Len(hist) - 5].pre # <<>>

\* what pop does on an empty stack
C11_PopUnderflowIsFatal ==
    (Instr(3) /\ IsStep /\ stack = <<>> /\ RegAt(Self, 1).err = "none")
        => fault' = "StackUnderflow" /\ UNCHANGED <<registers, addr, stack>>

\* what ret does on an empty stack
C11_RetOnEmptyIsHalt ==
    (Instr(18) /\ IsStep /\ stack = <<>>) => fault' = "none" /\ ~running'

\* C11: pop with an empty stack ends the run with a StackUnderflow error,
\* writes no register and does not advance the program counter, whereas ret
\* with an empty stack is a normal halt.
C11_PopVersusRet == [][C11_PopUnderflowIsFatal /\ C11_RetOnEmptyIsHalt]_vars

\* the word of operand k of the instruction at the program counter
OperandWord(k) == GetRam(Self, addr + k)

OperandsReadable(n) == \A k \in 1 .. Operands(n) : OperandWord(k).err = "none"

\* a literal where the arm needs a register
DestLiteral(n) == n \in DestOpcodes /\ OperandWord(1).v < Modulus

SomeInvalid(n) == \E k \in 1 .. Operands(n) : OperandWord(k).v >= RegisterEnd

NothingMutated == UNCHANGED <<registers, stack, ram, addr, input_buffer>>

\* C12: for every opcode, a literal in the slot that must name a register
\* gives a TypeMismatch error and an operand word >= 32776 an InvalidWord
\* error, and in both cases registers, stack, memory, program counter and
\* input buffer are unchanged.
C12_OperandValidation ==
    [][\A n \in 0 .. 21 :
          (Instr(n) /\ IsStep /\ OperandsReadable(n))
              => /\ DestLiteral(n) => (fault' = "TypeMismatch" /\ NothingMutated)
                 /\ (~DestLiteral(n) /\ SomeInvalid(n))
                       => (fault' = "InvalidWord" /\ NothingMutated)
      ]_vars

C12_Witness ==
    /\ fault = "InvalidWord" /\ last.op = "pop"
    /\ stack # <<>> /\ GetRam(Self, addr) = Ok(3)

\* the instructions that go on to the next one
Sequential == {1, 2, 3, 4, 5, 9, 10, 11, 12, 13, 14, 15, 16, 19, 21}

\* C13: every instruction that completes, other than halt, jmp, a taken jt
\* or jf, call, ret and an in that ran a debug command, advances the program
\* counter by one plus the number of its operands, and no-op changes
\* nothing else.
C13_DefaultAdvance ==
    [][(IsStep /\ Live /\ fault' = "none")
          => /\ \A n \in Sequential : Instr(n) => addr' = addr + 1 + Operands(n)
             /\ (Instr(20) /\ last'.op = "in") => addr' = addr + 2
             /\ (Instr(7) /\ ValAt(Self, 1).v = 0) => addr' = addr + 3
             /\ (Instr(8) /\ ValAt(Self, 1).v # 0) => addr' = addr + 3
             /\ Instr(21) => /\ UNCHANGED <<ram, registers, stack, running, level,
                                            input_buffer, files>>
                             /\ emitted' = <<>> /\ printed' = <<>>
      ]_vars

C13_Witness ==
    /\ last.op = "no-op" /\ fault = "none" /\ addr = 1
    /\ GetRam(Self, 0) = Ok(21) /\ GetRam(Self, 1) = Ok(21)

\* both operands of jt and jf resolve
BranchCase(n) ==
    Instr(n) /\ IsStep /\ ValAt(Self, 1).err = "none" /\ ValAt(Self, 2).err = "none"

\* C14: jmp sets the program counter to the value of a; jt sets it to the
\* value of b when a is nonzero and to PC + 3 otherwise; jf sets it to the
\* value of b when a is zero and to PC + 3 otherwise; the target is a word
\* index, and registers, stack and memory are unchanged.
C14_BranchSemantics ==
    [][/\ (Instr(6) /\ IsStep /\ ValAt(Self, 1).err = "none")
             => /\ fault' = "none" /\ addr' = ValAt(Self, 1).v
                /\ UNCHANGED <<registers, stack, ram>>
       /\ BranchCase(7)
             => /\ fault' = "none"
                /\ addr' = IF ValAt(Self, 1).v # 0 THEN ValAt(Self, 2).v ELSE addr + 3
                /\ UNCHANGED <<registers, stack, ram>>
       /\ BranchCase(8)
             => /\ fault' = "none"
                /\ addr' = IF ValAt(Self, 1).v = 0 THEN ValAt(Self, 2).v ELSE addr + 3
                /\ UNCHANGED <<registers, stack, ram>>
      ]_vars

C14_Witness ==
    /\ last.op = "jt" /\ fault = "none" /\ Len(last.args) = 2
    /\ last.args[1] # 0 /\ last.args[2] = 300 /\ addr = 300

\* the three operands of eq and gt resolve
CompareCase(n) ==
    /\ Instr(n) /\ IsStep
    /\ RegAt(Self, 1).err = "none"
    /\ ValAt(Self, 2).err = "none" /\ ValAt(Self, 3).err = "none"

Bool(p) == IF p THEN 1 ELSE 0

\* C15: eq writes 1 to register a when b = c and 0 otherwise, gt writes 1
\* when b > c and 0 otherwise; afterwards register a is 0 or 1 and no other
\* register has changed.
C15_EqGtStoreBoolean ==
    [][/\ CompareCase(4)
             => /\ fault' = "none"
                /\ registers' = [registers EXCEPT
                                   ![RegAt(Self, 1).v] = Bool(ValAt(Self, 2).v = ValAt(Self, 3).v)]
       /\ CompareCase(5)
             => /\ fault' = "none"
                /\ registers' = [registers EXCEPT
                                   ![RegAt(Self, 1).v] = Bool(ValAt(Self, 2).v > ValAt(Self, 3).v)]
       /\ (CompareCase(4) \/ CompareCase(5)) => registers'[RegAt(Self, 1).v] \in {0, 1}
      ]_vars

C15_Witness ==
    /\ last.op = "gt" /\ fault = "none" /\ Len(last.args) = 3
    /\ last.args[2] = last.args[3] /\ last.args[2] > 1
    /\ registers[last.args[1]] = 0

\* C16: an in delivers the first byte of the input buffer, whatever the
\* byte, and removes it; nothing else changes the input buffer; with an
\* empty buffer in delivers the byte read from stdin, and the escape
\* character and its command line are not delivered to a register.
C16_InputOrdering ==
    [][IsStep
          => /\ (Instr(20) /\ RegAt(Self, 1).err = "none" /\ input_buffer # <<>>)
                   => /\ fault' = "none" /\ last'.op = "in"
                      /\ registers' = [registers EXCEPT ![RegAt(Self, 1).v] = Head(input_buffer)]
                      /\ input_buffer' = Tail(input_buffer)
             /\ input_buffer' # input_buffer
                   => Instr(20) /\ input_buffer # <<>> /\ input_buffer' = Tail(input_buffer)
             /\ (Instr(20) /\ ReadsStdin /\ fault' = "none")
                   => IF last'.op = "in"
                      THEN /\ last'.args[2] # EscapeChar
                           /\ registers' = [registers EXCEPT ![RegAt(Self, 1).v] = last'.args[2]]
                      ELSE IF last'.op = "set"
                      THEN registers' = [registers EXCEPT ![last'.args[1]] = last'.args[2]]
                      ELSE registers' = registers
      ]_vars

C16_Witness ==
    /\ last.op = "in" /\ fault = "none"
    /\ last.args[2] = EscapeChar /\ registers[last.args[1]] = EscapeChar
    /\ input_buffer = <<10>>

\* the program of the example: set r0 5; out r0; halt
ExampleProgram == Pack(<<1, 32768, 5, 19, 32768, 0>>)

\* C17: the bytes that reach the output sink are, in execution order, the
\* values of a mod 256 of the out instructions executed, and nothing else
\* writes to that sink; out changes no register, stack entry or memory
\* word. The program 1, 32768, 5, 19, 32768, 0 sets register 0 to 5 with the
\* program counter going from 0 to 3 and then emits byte 5.
C17_OutputIsOutStream ==
    [][(IsStep /\ Live)
          => /\ (Instr(19) /\ ValAt(Self, 1).err = "none")
                   => /\ fault' = "none"
                      /\ emitted' = <<ValAt(Self, 1).v % 256>>
                      /\ UNCHANGED <<registers, stack, ram>>
             /\ ~Instr(19) => emitted' = <<>>
             /\ (ram = ExampleProgram /\ addr = 0 /\ registers[0] = 0)
                   => registers'[0] = 5 /\ addr' = 3
             /\ (ram = ExampleProgram /\ addr = 3 /\ registers[0] = 5) => emitted' = <<5>>
      ]_vars

\* C18: halt sets running to false and changes nothing else, and once
\* running is false no step is executed: registers, stack, memory, program
\* counter and input buffer stay as they were.
C18_HaltIsTerminal ==
    [][/\ (Instr(0) /\ IsStep)
             => /\ ~running' /\ fault' = "none"
                /\ UNCHANGED <<ram, registers, addr, stack, level, input_buffer, files>>
                /\ emitted' = <<>> /\ printed' = <<>>
       /\ ~running => UNCHANGED <<ram, registers, addr, stack, running, input_buffer>>
      ]_vars

C18_Witness ==
    /\ ~running /\ fault = "none" /\ last.op = "halt"
    /\ addr = 12 /\ GetRam(Self, addr) = Ok(0)

\* the error kinds of a step
ErrorKinds == {"OutOfBounds", "InvalidWord", "TypeMismatch", "StackUnderflow", "UnknownOpcode"}

\* mod with operand values in [0, 32767] completes
C19_ModCompletes ==
    AluCase(11)
        => /\ fault' = "none"
           /\ addr' = addr + 4
           /\ ValAt(Self, 3).v # 0
                 => registers' = [registers EXCEPT
                                    ![RegAt(Self, 1).v] = ValAt(Self, 2).v % ValAt(Self, 3).v]

\* C19: for all operand values b, c in [0, 32767], mod completes as a normal
\* step, stores b mod c in register a and advances the program counter by
\* 4; when the step fails, it fails with one of the five error kinds.
C19_ModStoresRemainder ==
    [][/\ C19_ModCompletes
       /\ (Instr(11) /\ IsStep) => fault' \in ErrorKinds \cup {"none"}
      ]_vars

\* C20: save and export write nothing to a path that already exists, and
\* save, export and dump leave memory, registers, program counter, stack,
\* running flag and input buffer unchanged.
C20_SaveExportNoOverwrite ==
    [][(Instr(20) /\ IsStep /\ ReadsStdin /\ last'.op \in {"dump", "save", "export"})
          => /\ UNCHANGED <<ram, registers, addr, stack, running, input_buffer>>
             /\ last'.op \in {"save", "export"}
                   => \A p \in Paths : Exists(files, p) => files'[p] = files[p]
      ]_vars

C20_Witness ==
    /\ last.op = "save" /\ fault = "none"
    /\ printed = << <<"file already exists, doing nothing">> >>
    /\ files["state"].kind = "json"

\* C21: in every state reached from a freshly loaded program image, every
\* register and every stack entry holds a value in [0, 32767], and every
\* value wmem has written is in [0, 32767].
C21_WordRange ==
    /\ \A r \in DOMAIN registers : InWordRange(registers[r])
    /\ \A i \in 1 .. Len(stack) : InWordRange(stack[i])
    /\ (last.op = "wmem" /\ fault = "none" /\ Len(last.args) = 2) => InWordRange(last.args[2])

\* C22: the call-depth counter is never negative, and ret with a stack that
\* is not empty pops the top and jumps to it, also when more rets than calls
\* have been executed.
C22_LevelNeverUnderflows ==
    [][IsStep
          => /\ level' >= 0
             /\ (Instr(18) /\ stack # <<>>)
                   => /\ fault' = "none"
                      /\ addr' = stack[Len(stack)]
                      /\ stack' = SubSeq(stack, 1, Len(stack) - 1)
      ]_vars

\* C23: whenever a step ends the run with one of the five error kinds, a
\* dump of the machine state has been written before.
C23_DumpBeforeFatal ==
    fault \in ErrorKinds => (printed # <<>> /\ printed[1][1] = "dump")

\* the step ran process_internal_command: a dump, save, export, a line
\* that is no command, or a set that is the command and not opcode 1 (it
\* has printed its line or failed on its tokens)
RanInternalCommand ==
    \/ last'.op \in {"dump", "save", "export", "command"}
    \/ /\ last'.op = "set"
       /\ printed' # <<>> \/ fault' \in {"CommandIndex", "ParseError"}

\* the machine an exported file holds
Exported(text) == FromJson(text)

\* C25: a debug command runs only in a state where running is true, the
\* input buffer is empty and the instruction fetched at the program counter
\* is in; every exported snapshot has an empty input buffer, running true
\* and a program counter at an in instruction.
C25_CommandsOnlyAtIn ==
    [][IsStep
          => /\ RanInternalCommand => running /\ input_buffer = <<>> /\ Decoded(20)
             /\ \A p \in Paths :
                   files'[p].kind = "json"
                       => /\ Exported(files'[p].text).input_buffer = <<>>
                          /\ Exported(files'[p].text).running
                          /\ Is(Fetch(Exported(files'[p].text)), 20)
      ]_vars

C25_Witness ==
    /\ files["state"].kind = "json" /\ last.op = "export" /\ fault = "none"
    /\ FromJson(files["state"].text) = Self
    /\ Instr(20) /\ stack # <<>>

(***************************************************************************)
(* The disassembler (src/bin/dis.rs). Its VM repeats get_ram,              *)
(* get_ram_value, get_register and get_value of the executor word for      *)
(* word; its step takes &self and the address and returns the next         *)
(* address. The variables ram, registers and addr are the disassembler's   *)
(* vm.ram, vm.registers and main's addr.                                   *)
(***************************************************************************)
\* the reads of an arm in their order: the first that fails is the panic,
\* and next is returned when none fails
DisArm(reads, next) ==
    IF \E i \in 1 .. Len(reads) : reads[i].err # "none"
    THEN Err(reads[CHOOSE i \in 1 .. Len(reads) :
                      /\ reads[i].err # "none"
                      /\ \A j \in 1 .. i - 1 : reads[j].err = "none"].err)
    ELSE next

\* the match of step on the instruction fetched at a
DisDispatch(m, a, instruction) ==
    IF instruction.err # "none" THEN instruction
    ELSE CASE instruction.v \in {0, 18, 21} -> AddU16(a, 1)
           [] instruction.v \in {3, 19, 20} -> AddU16(a, 2)
           [] instruction.v = 1 ->
                DisArm(<<GetRegister(m, a + 1), GetRam(m, a + 2)>>, AddU16(a, 3))
           [] instruction.v \in {2, 6, 17} -> DisArm(<<GetRam(m, a + 1)>>, AddU16(a, 2))
           [] instruction.v \in {4, 5} ->
                DisArm(<<GetRam(m, a + 1), GetRam(m, a + 2), GetRam(m, a + 3)>>, AddU16(a, 4))
           [] instruction.v \in {7, 8, 16} ->
                DisArm(<<GetRam(m, a + 1), GetRam(m, a + 2)>>, AddU16(a, 3))
           [] instruction.v \in {9, 10, 11, 12, 13} ->
                DisArm(<<GetRegister(m, a + 1), GetRam(m, a + 2), GetRam(m, a + 3)>>,
                       AddU16(a, 4))
           [] instruction.v = 14 ->
                DisArm(<<GetRam(m, a + 1), GetValue(m, a + 2)>>, AddU16(a, 3))
           [] instruction.v = 15 -> DisArm(<<GetRam(m, a + 2)>>, AddU16(a, 3))
           [] OTHER -> AddU16(a, 1)

\* step(&self, addr) -> u16
DisStep(m, a) == DisDispatch(m, a, GetValue(m, a))

DisInit ==
    /\ overflow_checks \in BOOLEAN
    /\ \E rom \in Images : Start(New(rom))
    /\ search = <<>> /\ solver = <<>>

\* loop { addr = vm.step(addr) }: the step returns
DisWalk ==
    /\ fault = "none"
    /\ DisStep(Self, addr).err = "none"
    /\ addr' = DisStep(Self, addr).v
    /\ last' = [op |-> "dis", args |-> <<addr>>]
    /\ UNCHANGED <<ram, registers, stack, running, level, input_buffer, overflow_checks,
                   fault, emitted, printed, files, hist, twin, search, solver>>

\* the step panics
DisPanic ==
    /\ fault = "none"
    /\ DisStep(Self, addr).err # "none"
    /\ fault' = DisStep(Self, addr).err
    /\ last' = [op |-> "dis", args |-> <<addr>>]
    /\ UNCHANGED <<ram, registers, addr, stack, running, level, input_buffer,
                   overflow_checks, emitted, printed, files, hist, twin,
                   search, solver>>

SpecDis == DisInit /\ [][DisWalk \/ DisPanic]_vars

\* the word at the disassembler's address, and the operand words an
\* instruction there has, are inside the image
DisCase ==
    /\ fault = "none" /\ last.op \in {"load", "dis"}
    /\ GetRam(Self, addr).err = "none"
    /\ GetRam(Self, addr).v \in 0 .. 21
          => \A k \in 1 .. Operands(GetRam(Self, addr).v) : GetRam(Self, addr + k).err = "none"

\* the length in words of the instruction the word w begins
Length(w) == IF w \in 0 .. 21 THEN 1 + Operands(w) ELSE 1

\* C24: for every address and every word there, one step of the
\* disassembler returns the address plus one plus the executor's operand
\* count of the word (plus one for a word that is no opcode), never a jump
\* target, and changes no memory, register or stack.
C24_DisassemblerWalksLinearly ==
    [][DisCase
          => /\ fault' = "none"
             /\ addr' = addr + Length(GetRam(Self, addr).v)
             /\ UNCHANGED <<ram, registers, stack>>
      ]_vars

(***************************************************************************)
(* bin/orb.rs: the breadth-first search of the vault maze.  bfs handles    *)
(* every queue entry on its own, so the model follows one entry at a time: *)
(* the entry is dequeued and its tile applied (Visit), then one of its     *)
(* neighbours is pushed (east, west, north, south).  Every entry bfs ever  *)
(* enqueues within MaxMoves moves is reached this way.  An entry is        *)
(* "queued", or "visited" (its tile applied), "found", "dropped" (at END   *)
(* with another orb), or the panic that met it                             *)
(***************************************************************************)
MaxMoves == 12

START == <<0, 3>>
END == <<3, 0>>
TARGET == 30

\* MAZE[y][x], rows from the top
MAZE == << <<"*", "8", "-", "1">>,
           <<"4", "*", "11", "*">>,
           <<"+", "4", "-", "18">>,
           <<".", "-", "9", "*">> >>

\* if cur != START { ... }: the tile of a dequeued entry; an operator is
\* remembered, a number is parsed and combined with the orb
Arrive(e) ==
    LET tile == MAZE[e.cur[2] + 1][e.cur[1] + 1]
        \* n.parse::<i64>()
        ParseI64(n) ==
            CASE n = "1" -> Ok(1)
              [] n = "4" -> Ok(4)
              [] n = "8" -> Ok(8)
              [] n = "9" -> Ok(9)
              [] n = "11" -> Ok(11)
              [] n = "18" -> Ok(18)
              [] OTHER -> Err("ParseError")
        \* match op.unwrap() { "+" => orb += n, "*" => orb *= n, "-" => orb -= n }
        Apply(n) ==
            IF n.err # "none" THEN [e EXCEPT !.at = "parse failed"]
            ELSE IF e.op = <<>> THEN [e EXCEPT !.at = "unwrap failed"]
            ELSE [e EXCEPT !.at = "visited", !.op = <<>>,
                           !.orb = CASE e.op[1] = "+" -> e.orb + n.v
                                     [] e.op[1] = "*" -> e.orb * n.v
                                     [] OTHER -> e.orb - n.v]
    IN  IF e.cur = START THEN [e EXCEPT !.at = "visited"]
        ELSE IF tile \in {"+", "-", "*"}
        THEN IF e.op # <<>> THEN [e EXCEPT !.at = "assert failed"]
             ELSE [e EXCEPT !.at = "visited", !.op = <<tile>>]
        ELSE Apply(ParseI64(tile))

\* a neighbour is pushed when it is in the maze and is not START
CanEnterAnywhere(nx, ny) == nx \in 0 .. 3 /\ ny \in 0 .. 3
CanEnter(nx, ny) == nx \in 0 .. 3 /\ ny \in 0 .. 3 /\ <<nx, ny>> # START

\* queue.push_back(((nx, ny), orb, op, moves))
PushBack(nx, ny) ==
    /\ search # <<>>
    /\ search.at = "visited"
    /\ search.moves < MaxMoves
    /\ CanEnter(nx, ny)
    /\ search' = [search EXCEPT !.cur = <<nx, ny>>, !.moves = @ + 1, !.at = "queued"]
    /\ UNCHANGED <<ram, registers, addr, stack, running, level, input_buffer,
                   overflow_checks, fault, emitted, printed, last, files, hist, twin,
                   solver>>

\* queue.push_back((START, 22, None, vec![])); no virtual machine is built
OrbInit ==
    /\ overflow_checks = FALSE
    /\ Start(New(<<>>))
    /\ search = [at |-> "queued", cur |-> START, orb |-> 22, op |-> <<>>, moves |-> 0]
    /\ solver = <<>>

\* queue.pop_front(), the tile, and
\* if cur == END { if orb == TARGET { return } else { continue } }
Visit ==
    /\ search # <<>>
    /\ search.at = "queued"
    /\ search' = IF Arrive(search).at = "visited" /\ search.cur = END
                 THEN [Arrive(search) EXCEPT
                          !.at = IF Arrive(search).orb = TARGET THEN "found" ELSE "dropped"]
                 ELSE Arrive(search)
    /\ UNCHANGED <<ram, registers, addr, stack, running, level, input_buffer,
                   overflow_checks, fault, emitted, printed, last, files, hist, twin,
                   solver>>

\* let nx = x + 1; let nx = x.checked_sub(1); let ny = y.checked_sub(1);
\* let ny = y + 1
East == PushBack(search.cur[1] + 1, search.cur[2])
West == PushBack(search.cur[1] - 1, search.cur[2])
North == PushBack(search.cur[1], search.cur[2] - 1)
South == PushBack(search.cur[1], search.cur[2] + 1)

SpecOrb == OrbInit /\ [][Visit \/ East \/ West \/ North \/ South]_vars

\* the pending operator of an entry that waits in the queue
Pending(e) ==
    e.cur # START =>
        (e.op = <<>> <=> MAZE[e.cur[2] + 1][e.cur[1] + 1] \in {"+", "-", "*"})

SearchState(e) ==
    /\ e.at \notin {"assert failed", "unwrap failed", "parse failed"}
    /\ e.at = "queued" => Pending(e)
    /\ e.cur = START => e.moves = 0

\* C26: every entry bfs dequeues has no pending operator exactly when it
\* arrives on an operator tile and has one when it arrives on a number tile,
\* so neither assert!(op.is_none()) nor op.unwrap() (nor the parse of the
\* tile) fails; START is never entered again; and an entry that reached END
\* with an orb other than 30 gets no successor
C26_SearchAssertionsHold ==
    [][/\ SearchState(search)
       /\ SearchState(search')
       /\ search.at = "dropped" => search' = search]_vars

C26_Witness ==
    /\ search # <<>>
    /\ search.at = "dropped"
    /\ search.cur = END
    /\ search.orb # TARGET
    /\ search.op = <<>>

(***************************************************************************)
(* bin/6049.rs: the memoized confirmation function of the teleporter.      *)
(* fn6049 recurses, so the model keeps its activations as a sequence of    *)
(* frames (the innermost last).  A frame is either at the entry of the     *)
(* function or suspended in one of the three recursive calls: "first"      *)
(* (r1 == 0, line 17), "inner" (line 28) or "outer" (line 41); r0 and r1   *)
(* of a suspended frame are the arguments of the call it waits for, the    *)
(* key under which the result is inserted; got lists what the cache.get    *)
(* calls of the last step found.  main asks for (4, 1); the recursion is   *)
(* Ackermann's, and beyond r0 = 2 neither it nor its reference can be      *)
(* followed to the end, so the model asks for r0 in 0 .. 2                 *)
(***************************************************************************)
MaxR1 == 3
MaxR7 == 3

\* cache.insert((r0, r1), v)
InsertUnderResult(cache, key, v) == (<<key[1], v>> :> v) @@ cache
Insert(cache, key, v) == (key :> v) @@ cache

\* return v
Return(s, v) ==
    [s EXCEPT !.frames = SubSeq(@, 1, Len(@) - 1), !.ret = <<v>>,
              !.at = IF Len(s.frames) = 1 THEN "done" ELSE "running"]

\* cache.get missed: fn6049(r0, r1, r7, cache), the caller waits at pc
Recurse(s, pc, key, tmp) ==
    [s EXCEPT !.frames = SubSeq(@, 1, Len(@) - 1)
                            \o <<[pc |-> pc, r0 |-> key[1], r1 |-> key[2], tmp |-> tmp],
                                 [pc |-> "entry", r0 |-> key[1], r1 |-> key[2], tmp |-> 0]>>,
              !.ret = <<>>,
              !.got = Append(@, "miss")]

\* lines 14-20 (pc = "first") and 38-44 (pc = "outer"): the value returned
\* is the cached one, or the one computed by the call
Get(s, pc, key) ==
    IF key \in DOMAIN s.cache
    THEN Return([s EXCEPT !.got = Append(@, "hit")], s.cache[key])
    ELSE Recurse(s, pc, key, 0)

\* lines 25-31: r0 is the cached value, or the one computed by the call;
\* lines 33-36: r1 = r0; r0 = tmp; r0 = (r0 + 32767) % 32768
Inner(s, key, tmp) ==
    IF key \in DOMAIN s.cache
    THEN Get([s EXCEPT !.got = Append(@, "hit")], "outer",
             <<(tmp + 32767) % 32768, s.cache[key]>>)
    ELSE Recurse(s, "inner", key, tmp)

\* if r0 == 0 { r0 = (r1 + 1) % 32768; return r0; }
FnBase ==
    /\ solver # <<>>
    /\ solver.at = "running" /\ solver.ret = <<>>
    /\ LET f == solver.frames[Len(solver.frames)]
       IN  /\ f.pc = "entry"
           /\ f.r0 = 0
           /\ solver' = Return([solver EXCEPT !.got = <<>>], (f.r1 + 1) % 32768)
    /\ UNCHANGED <<ram, registers, addr, stack, running, level, input_buffer,
                   overflow_checks, fault, emitted, printed, last, files, hist, twin,
                   search>>

\* if r1 == 0 { r0 = (r0 + 32767) % 32768; r1 = r7; ... }
FnZero ==
    /\ solver # <<>>
    /\ solver.at = "running" /\ solver.ret = <<>>
    /\ LET f == solver.frames[Len(solver.frames)]
       IN  /\ f.pc = "entry"
           /\ f.r0 # 0 /\ f.r1 = 0
           /\ solver' = Get([solver EXCEPT !.got = <<>>], "first",
                            <<(f.r0 + 32767) % 32768, solver.r7>>)
    /\ UNCHANGED <<ram, registers, addr, stack, running, level, input_buffer,
                   overflow_checks, fault, emitted, printed, last, files, hist, twin,
                   search>>

\* let tmp = r0; r1 = (r1 + 32767) % 32768; ...
FnBoth ==
    /\ solver # <<>>
    /\ solver.at = "running" /\ solver.ret = <<>>
    /\ LET f == solver.frames[Len(solver.frames)]
       IN  /\ f.pc = "entry"
           /\ f.r0 # 0 /\ f.r1 # 0
           /\ solver' = Inner([solver EXCEPT !.got = <<>>],
                              <<f.r0, (f.r1 + 32767) % 32768>>, f.r0)
    /\ UNCHANGED <<ram, registers, addr, stack, running, level, input_buffer,
                   overflow_checks, fault, emitted, printed, last, files, hist, twin,
                   search>>

\* a recursive call returned v: cache.insert((r0, r1), v); then return v
\* (lines 19 and 43), or r0 = v and the outer lookup (line 30)
FnReturned ==
    /\ solver # <<>>
    /\ solver.at = "running" /\ solver.ret # <<>>
    /\ LET f == solver.frames[Len(solver.frames)]
           v == solver.ret[1]
           s == [solver EXCEPT !.cache = Insert(@, <<f.r0, f.r1>>, v),
                               !.ret = <<>>, !.got = <<>>]
       IN  solver' = IF f.pc = "inner"
                     THEN Get(s, "outer", <<(f.tmp + 32767) % 32768, v>>)
                     ELSE Return(s, v)
    /\ UNCHANGED <<ram, registers, addr, stack, running, level, input_buffer,
                   overflow_checks, fault, emitted, printed, last, files, hist, twin,
                   search>>

\* main: let mut cache = Cache::new(); fn6049(4, 1, i, &mut cache) with the
\* first i, 1; no virtual machine is built
FnInit ==
    /\ overflow_checks = FALSE
    /\ Start(New(<<>>))
    /\ search = <<>>
    /\ \E r0 \in 0 .. 2, r1 \in 0 .. MaxR1 :
          solver = [at |-> "running", r7 |-> 1, args |-> <<r0, r1>>,
                    frames |-> <<[pc |-> "entry", r0 |-> r0, r1 |-> r1, tmp |-> 0]>>,
                    cache |-> <<>>, ret |-> <<>>, got |-> <<>>]

\* for i in 1..32768: the next i, with a new cache
FnNextR7 ==
    /\ solver # <<>>
    /\ solver.at = "done"
    /\ solver.r7 < MaxR7
    /\ solver' = [solver EXCEPT !.at = "running", !.r7 = @ + 1,
                                !.frames = <<[pc |-> "entry", r0 |-> solver.args[1],
                                              r1 |-> solver.args[2], tmp |-> 0]>>,
                                !.cache = <<>>, !.ret = <<>>, !.got = <<>>]
    /\ UNCHANGED <<ram, registers, addr, stack, running, level, input_buffer,
                   overflow_checks, fault, emitted, printed, last, files, hist, twin,
                   search>>

SpecFn ==
    FnInit /\ [][FnBase \/ FnZero \/ FnBoth \/ FnReturned \/ FnNextR7]_vars

\* the uncached recursion
RECURSIVE F(_, _, _)
F(m, n, r7) ==
    IF m = 0 THEN (n + 1) % 32768
    ELSE IF n = 0 THEN F(m - 1, r7, r7)
    ELSE F(m - 1, F(m, n - 1, r7), r7)

\* C27: within the cache of one r7, every entry that is inserted equals the
\* uncached recursion F for its key and that r7 and is never changed
\* afterwards, the value fn6049 returns to main equals F for the arguments,
\* and the run for the next r7 starts from an empty cache
C27_MemoizationTransparent ==
    [][/\ solver'.r7 = solver.r7 =>
            /\ \A k \in DOMAIN solver.cache :
                  k \in DOMAIN solver'.cache /\ solver'.cache[k] = solver.cache[k]
            /\ \A k \in DOMAIN solver'.cache \ DOMAIN solver.cache :
                  solver'.cache[k] = F(k[1], k[2], solver'.r7)
       /\ solver'.r7 # solver.r7 => DOMAIN solver'.cache = {}
       /\ solver'.at = "done" =>
            solver'.ret = <<F(solver'.args[1], solver'.args[2], solver'.r7)>>]_vars

\* in the run for the second r7 a lookup has just been answered from the
\* cache, which holds the results of earlier recursive calls
C27_Witness ==
    /\ solver # <<>>
    /\ solver.r7 = 2
    /\ solver.got = <<"hit", "miss">>
    /\ Cardinality(DOMAIN solver.cache) > 2
    /\ \A k \in DOMAIN solver.cache : solver.cache[k] = F(k[1], k[2], 2)
====
